---- MODULE Spec2Model ----
(***************************************************************************)
(* A model of sshbox (sshbox.go): hybrid file encryption with SSH keys.    *)
(*                                                                         *)
(* Byte strings are sequences of integers 0..255; text is its ASCII bytes. *)
(* The codecs the program calls (base64, the ssh public-key wire format,   *)
(* DER, PEM, the public-key regular expression) are modelled byte by byte. *)
(* The cryptographic primitives of the libraries (RSA-OAEP, secretbox) are *)
(* modelled as ideal, length-faithful ciphers over byte strings.           *)
(***************************************************************************)
EXTENDS Integers, Sequences, FiniteSets, TLC

VARIABLES
    kin,        \* SpecKey: the bytes fetchKey handed to loadPublicKey
    kshape,     \* SpecKey: how kin was built (payload, label, comment, newline, fields)
    kres,       \* SpecKey: what loadPublicKey returned (status "none" before the call)
    bLockedKey, \* SpecBox: the lockedKey given to packageBox
    bBox,       \* SpecBox: the box given to packageBox
    bArmour,    \* SpecBox: the armour flag given to packageBox
    bPkg,       \* SpecBox: the bytes of the container file
    bKind,      \* SpecBox: "new", "packaged", or how the file differs from packageBox's
    bOut,       \* SpecBox: what unpackageBox returned (done FALSE before the call)
    fs,         \* Spec: the source and target files, name -> [present, data]
    runs,       \* Spec: how many times the program was started
    pc,         \* Spec: where the running program is, "idle" between runs
    fl,         \* Spec: the command line of the run: -d, -e, -a, -k, arguments
    loc,        \* Spec: the local variables of encrypt and decrypt
    fetch,      \* Spec: the run's call of fetchKey: by whom, how, its error
    failed,     \* Spec: the step of encrypt or decrypt that failed, "none"
    writes,     \* Spec: how many times the run called WriteFile on the target
    exit        \* Spec: the exit status, -1 while running

keyVars == <<kin, kshape, kres>>
boxVars == <<bLockedKey, bBox, bArmour, bPkg, bKind, bOut>>
mainVars == <<fs, runs, pc, fl, loc, fetch, failed, writes, exit>>
vars == <<keyVars, boxVars, mainVars>>

(***************************************************************************)
(* Byte-string helpers                                                     *)
(***************************************************************************)

\* A sequence of n copies of byte b (make([]byte, n) gives Fill(0, n)).
Fill(b, n) == [i \in 1..n |-> b]

\* s without its first n elements.
Drop(s, n) == IF n >= Len(s) THEN <<>> ELSE SubSeq(s, n + 1, Len(s))

\* The first n elements of s (all of s when it is shorter).
Take(s, n) == IF n >= Len(s) THEN s ELSE SubSeq(s, 1, n)

\* s without the elements that are in bad.
Without(s, bad) == LET Keep(x) == x \notin bad IN SelectSeq(s, Keep)

\* The least element of a non-empty set of integers.
Least(S) == CHOOSE i \in S : \A j \in S : i <= j

\* s is a prefix of t.
IsPrefix(s, t) == Len(s) <= Len(t) /\ SubSeq(t, 1, Len(s)) = s

\* The first index >= from at which pat occurs in s, 0 when there is none
\* (bytes.Index on s[from-1:], as an index into s).
IndexFrom(s, pat, from) ==
    LET at == {i \in from..(Len(s) - Len(pat) + 1) :
                  SubSeq(s, i, i + Len(pat) - 1) = pat}
    IN  IF at = {} THEN 0 ELSE Least(at)

\* ASCII text used by the program.
SshRsa == <<115, 115, 104, 45, 114, 115, 97>>                  \* "ssh-rsa"
SshDss == <<115, 115, 104, 45, 100, 115, 115>>                 \* "ssh-dss"
Comment == <<117, 64, 104>>                                    \* "u@h"
SP == 32
LF == 10
CR == 13
Dash5 == <<45, 45, 45, 45, 45>>                                \* "-----"

(***************************************************************************)
(* encoding/base64, StdEncoding                                            *)
(***************************************************************************)

\* The character of a 6-bit value in the standard alphabet.
B64Char(v) ==
    IF v < 26 THEN 65 + v
    ELSE IF v < 52 THEN 97 + (v - 26)
    ELSE IF v < 62 THEN 48 + (v - 52)
    ELSE IF v = 62 THEN 43 ELSE 47

\* The 6-bit value of a character, -1 for a character outside the alphabet.
B64Val(c) ==
    IF c >= 65 /\ c <= 90 THEN c - 65
    ELSE IF c >= 97 /\ c <= 122 THEN c - 97 + 26
    ELSE IF c >= 48 /\ c <= 57 THEN c - 48 + 52
    ELSE IF c = 43 THEN 62
    ELSE IF c = 47 THEN 63
    ELSE -1

Pad == 61   \* '='

\* base64.StdEncoding.Encode: three bytes to four characters, '=' padded.
B64Encode(b) ==
    LET n  == Len(b)
        At(i) == IF i <= n THEN b[i] ELSE 0
        Ch(j) ==
            LET g  == 3 * ((j - 1) \div 4)
                p  == (j - 1) % 4
            IN  IF p = 0 THEN B64Char(At(g + 1) \div 4)
                ELSE IF p = 1 THEN B64Char((At(g + 1) % 4) * 16 + At(g + 2) \div 16)
                ELSE IF p = 2 THEN
                    IF g + 2 > n THEN Pad
                    ELSE B64Char((At(g + 2) % 16) * 4 + At(g + 3) \div 64)
                ELSE IF g + 3 > n THEN Pad ELSE B64Char(At(g + 3) % 64)
    IN  [j \in 1..(4 * ((n + 2) \div 3)) |-> Ch(j)]

\* Decoding of text whose CR and LF are already removed: quanta of four
\* characters, '=' only as the last one or two characters of the last quantum.
B64DecodeQuanta(s) ==
    LET L    == Len(s)
        pads == IF L >= 4 /\ s[L] = Pad THEN (IF s[L - 1] = Pad THEN 2 ELSE 1) ELSE 0
        V(j) == IF B64Val(s[j]) < 0 THEN 0 ELSE B64Val(s[j])
        By(i) ==
            LET q == 4 * ((i - 1) \div 3)
                p == (i - 1) % 3
            IN  IF p = 0 THEN V(q + 1) * 4 + V(q + 2) \div 16
                ELSE IF p = 1 THEN (V(q + 2) % 16) * 16 + V(q + 3) \div 4
                ELSE (V(q + 3) % 4) * 64 + V(q + 4)
    IN  IF L % 4 # 0 \/ \E j \in 1..(L - pads) : B64Val(s[j]) < 0
        THEN [ok |-> FALSE, bytes |-> <<>>]
        ELSE [ok |-> TRUE, bytes |-> [i \in 1..(3 * (L \div 4) - pads) |-> By(i)]]

\* base64.StdEncoding.Decode: CR and LF are skipped, any other character
\* outside the alphabet is a CorruptInputError. bytes are the n bytes written.
B64Decode(s) == B64DecodeQuanta(Without(s, {CR, LF}))

\* base64.StdEncoding.DecodedLen(n): the maximum length, padding included.
DecodedLen(n) == (n \div 4) * 3

(***************************************************************************)
(* math/big: an unsigned integer is its big-endian bytes without leading   *)
(* zeros; a signed one is [neg, mag].                                      *)
(***************************************************************************)

\* new(big.Int).SetBytes(b): the value of b read as a big-endian unsigned
\* integer, kept as its minimal big-endian bytes.
RECURSIVE SetBytes(_)
SetBytes(b) ==
    IF b = <<>> THEN <<>>
    ELSE IF Head(b) = 0 THEN SetBytes(Tail(b))
    ELSE b

\* b + 1 on a fixed-width big-endian byte string, the carry out dropped.
RECURSIVE AddOne(_)
AddOne(b) ==
    IF b = <<>> THEN <<>>
    ELSE LET n == Len(b)
         IN  IF b[n] < 255 THEN [b EXCEPT ![n] = b[n] + 1]
             ELSE AddOne(SubSeq(b, 1, n - 1)) \o <<0>>

\* (*big.Int).Int64() of the non-negative value mag: the low 64 bits of the
\* magnitude, reinterpreted as a two's complement int64.
Int64Width == 8
BigInt64(mag) ==
    LET w    == Int64Width
        low  == IF Len(mag) >= w THEN SubSeq(mag, Len(mag) - w + 1, Len(mag))
                ELSE Fill(0, w - Len(mag)) \o mag
    IN  IF low[1] >= 128
        THEN [neg |-> TRUE,
              mag |-> SetBytes(AddOne([i \in 1..w |-> 255 - low[i]]))]
        ELSE [neg |-> FALSE, mag |-> SetBytes(low)]

(***************************************************************************)
(* The public key: regular expression, wire format, loadPublicKey          *)
(***************************************************************************)

\* \s of the regular expression syntax: [\t\n\f\r ].
ReSpace == {9, 10, 12, 13, 32}

\* The longest prefix of s that holds no whitespace (\S+ is greedy).
NonSpaceRun(s) ==
    LET sp == {i \in 1..Len(s) : s[i] \in ReSpace}
    IN  IF sp = {} THEN s ELSE SubSeq(s, 1, Least(sp) - 1)

\* pubkeyRegexp.ReplaceAll(kb64, "$1") for "^ssh-rsa (\S+).*$". Without the
\* m and s flags ^ and $ match only at the ends of the text and . matches no
\* line feed, so the expression matches the whole text or nothing.
pubkeyRegexp(s) ==
    LET pre  == SshRsa \o <<SP>>
        body == Drop(s, Len(pre))
        run  == NonSpaceRun(body)
    IN  IF IsPrefix(pre, s) /\ run # <<>>
           /\ \A i \in 1..Len(body) : body[i] # LF
        THEN run
        ELSE s

\* binary.Read(buf, binary.BigEndian, &length) with length an int32.
ReadInt32(buf) ==
    IF Len(buf) < 4 THEN [ok |-> FALSE, val |-> 0, rest |-> <<>>]
    ELSE [ok   |-> TRUE,
          val  |-> (IF buf[1] >= 128 THEN buf[1] - 256 ELSE buf[1]) * 16777216
                   + buf[2] * 65536 + buf[3] * 256 + buf[4],
          rest |-> Drop(buf, 4)]

\* One length-prefixed field: binary.Read of the length, make([]byte, length),
\* io.ReadFull. make panics on a negative length; ReadFull of zero bytes
\* succeeds on an empty buffer.
ReadField(buf) ==
    LET l == ReadInt32(buf)
    IN  IF ~l.ok THEN [status |-> "err", field |-> <<>>, rest |-> <<>>]
        ELSE IF l.val < 0 THEN [status |-> "panic", field |-> <<>>, rest |-> <<>>]
        ELSE IF l.val > Len(l.rest) THEN [status |-> "err", field |-> <<>>, rest |-> <<>>]
        ELSE [status |-> "ok", field |-> Take(l.rest, l.val), rest |-> Drop(l.rest, l.val)]

NoKey(st) ==
    [status |-> st, N |-> <<>>, E |-> [neg |-> FALSE, mag |-> <<>>],
     Exponent |-> <<>>, Modulus |-> <<>>]

\* The buffer loadPublicKey parses: DecodedLen(len(kb64)) bytes, of which
\* Decode filled the first n; the count Decode returns is discarded.
DecodeBuffer(kb64) ==
    LET d == B64Decode(kb64)
    IN  d.bytes \o Fill(0, DecodedLen(Len(kb64)) - Len(d.bytes))

\* loadPublicKey from the bytes fetchKey returned (whose error is overwritten
\* by the base64 decoding's).
loadPublicKey(kb64in) ==
    LET kb64 == pubkeyRegexp(kb64in)
    IN  IF ~B64Decode(kb64).ok THEN NoKey("err")
        ELSE
        LET alg == ReadField(DecodeBuffer(kb64))
        IN  IF alg.status # "ok" THEN NoKey(alg.status)
            ELSE IF alg.field # SshRsa THEN NoKey("err")
            ELSE
            LET exp == ReadField(alg.rest)
            IN  IF exp.status # "ok" THEN NoKey(exp.status)
                ELSE
                LET mod == ReadField(exp.rest)
                IN  IF mod.status # "ok" THEN NoKey(mod.status)
                    ELSE [status   |-> "ok",
                          N        |-> SetBytes(mod.field),
                          E        |-> BigInt64(SetBytes(exp.field)),
                          Exponent |-> exp.field,
                          Modulus  |-> mod.field]

(***************************************************************************)
(* SpecKey: loadPublicKey applied to key lines built from bounded parts    *)
(***************************************************************************)

MaxExpLen == 9      \* longest exponent field tried
MaxModTail == 2     \* longest modulus field tried, less one

\* n (0 <= n < 2^31) as a 4-byte big-endian length prefix.
U32(n) == <<n \div 16777216, (n \div 65536) % 256, (n \div 256) % 256, n % 256>>

\* A length prefix with its top bit set.
TopBit(pre) == [pre EXCEPT ![1] = pre[1] + 128]

AlgNames == {SshRsa, SshDss}
ExpFields ==
    {<<1, 0, 1>>, <<>>}
    \cup {<<b>> \o Fill(0, n - 1) : b \in {1, 128}, n \in 1..MaxExpLen}
ModFields ==
    {<<>>}
    \cup {lead \o <<193>> \o Fill(7, n) : lead \in {<<>>, <<0>>}, n \in 0..MaxModTail}
Tweaks == {"none", "neg1", "neg2", "neg3", "over1", "over2", "over3",
           "two", "cutprefix"}

\* The wire blob of a key, well formed ("none") or damaged in one place.
KeyBlob(alg, exp, mod, tweak) ==
    LET f3 == (IF tweak = "neg3" THEN TopBit(U32(Len(mod)))
               ELSE IF tweak = "over3" THEN U32(Len(mod) + 1)
               ELSE U32(Len(mod))) \o mod
        f2 == (IF tweak = "neg2" THEN TopBit(U32(Len(exp)))
               ELSE IF tweak = "over2" THEN U32(Len(exp) + Len(f3) + 1)
               ELSE U32(Len(exp))) \o exp
        f1 == (IF tweak = "neg1" THEN TopBit(U32(Len(alg)))
               ELSE IF tweak = "over1" THEN U32(Len(alg) + Len(f2) + Len(f3) + 1)
               ELSE U32(Len(alg))) \o alg
    IN  IF tweak = "two" THEN f1 \o f2
        ELSE IF tweak = "cutprefix" THEN f1 \o f2 \o Take(f3, 2)
        ELSE f1 \o f2 \o f3

\* The one-line key file: [label SP] payload [SP comment] [LF].
KeyLine(label, payload, comment, newline) ==
    (IF label THEN SshRsa \o <<SP>> ELSE <<>>)
    \o payload
    \o (IF comment THEN <<SP>> \o Comment ELSE <<>>)
    \o (IF newline THEN <<LF>> ELSE <<>>)

InitKey ==
    \E alg \in AlgNames, exp \in ExpFields, mod \in ModFields, tweak \in Tweaks,
       label \in BOOLEAN, comment \in BOOLEAN, newline \in BOOLEAN :
        LET payload == B64Encode(KeyBlob(alg, exp, mod, tweak))
        IN  /\ kin = KeyLine(label, payload, comment, newline)
            /\ kshape = [payload |-> payload, label |-> label, comment |-> comment,
                         newline |-> newline, tweak |-> tweak,
                         alg |-> alg, exp |-> exp, mod |-> mod]
            /\ kres = NoKey("none")

\* The call loadPublicKey(name, local) once fetchKey has returned kin.
LoadPublicKey ==
    /\ kres.status = "none"
    /\ kres' = loadPublicKey(kin)
    /\ UNCHANGED <<kin, kshape, boxVars, mainVars>>

(***************************************************************************)
(* encoding/asn1: the DER record of boxPackage, SEQUENCE { OCTET STRING    *)
(* LockedKey, OCTET STRING Box }                                           *)
(***************************************************************************)

TagSequence == 48       \* 0x30: universal, constructed, tag 16
TagOctetString == 4     \* 0x04: universal, primitive, tag 4

\* The DER length octets of n: short form below 128, else 0x80 + the number
\* of length bytes, then the length big-endian.
DerLen(n) ==
    IF n < 128 THEN <<n>>
    ELSE IF n < 256 THEN <<129, n>>
    ELSE IF n < 65536 THEN <<130, n \div 256, n % 256>>
    ELSE <<131, n \div 65536, (n \div 256) % 256, n % 256>>

\* One tag-length-value element.
DerTLV(tag, content) == <<tag>> \o DerLen(Len(content)) \o content

\* asn1.Marshal(boxPackage{lockedKey, box}).
Marshal(lockedKey, box) ==
    DerTLV(TagSequence,
           DerTLV(TagOctetString, lockedKey) \o DerTLV(TagOctetString, box))

\* The k bytes of a long-form length from position pos on (parseTagAndLength):
\* no leading zero byte, no value of 2^23 or more before a further byte, and no
\* value that the short form holds.
RECURSIVE DerLongLen(_, _, _, _)
DerLongLen(b, pos, k, acc) ==
    IF k = 0 THEN [ok |-> acc >= 128, len |-> acc, next |-> pos]
    ELSE IF pos > Len(b) \/ acc >= 8388608 \/ acc * 256 + b[pos] = 0
    THEN [ok |-> FALSE, len |-> 0, next |-> pos]
    ELSE DerLongLen(b, pos + 1, k - 1, acc * 256 + b[pos])

\* parseTagAndLength at position pos, then the check that the content lies
\* in b. An identifier byte in the high-tag-number form names a tag of 31 or
\* more (or is an error), so it matches none of the tags wanted here.
DerHeader(b, pos) ==
    LET bad == [ok |-> FALSE, id |-> 0, len |-> 0, body |-> 0]
    IN  IF pos + 1 > Len(b) \/ b[pos] % 32 = 31 THEN bad
        ELSE IF b[pos + 1] < 128
        THEN IF pos + 1 + b[pos + 1] > Len(b) THEN bad
             ELSE [ok |-> TRUE, id |-> b[pos], len |-> b[pos + 1], body |-> pos + 2]
        ELSE IF b[pos + 1] = 128 THEN bad
        ELSE LET l == DerLongLen(b, pos + 2, b[pos + 1] - 128, 0)
             IN  IF ~l.ok \/ l.len > Len(b) - l.next + 1 THEN bad
                 ELSE [ok |-> TRUE, id |-> b[pos], len |-> l.len, body |-> l.next]

\* parseField of one []byte member at position pos of the sequence's content.
OctetField(inner, pos) ==
    LET h == DerHeader(inner, pos)
    IN  IF pos > Len(inner) \/ ~h.ok \/ h.id # TagOctetString
        THEN [ok |-> FALSE, bytes |-> <<>>, next |-> pos]
        ELSE [ok |-> TRUE, bytes |-> SubSeq(inner, h.body, h.body + h.len - 1),
              next |-> h.body + h.len]

\* asn1.Unmarshal(b, &pkgStruct): the two members are parsed in order; bytes
\* left in the sequence after them are allowed, and the bytes after the
\* sequence are returned as rest.
Unmarshal(b) ==
    LET h   == DerHeader(b, 1)
        bad == [ok |-> FALSE, LockedKey |-> <<>>, Box |-> <<>>, rest |-> <<>>]
    IN  IF ~h.ok \/ h.id # TagSequence THEN bad
        ELSE
        LET inner == SubSeq(b, h.body, h.body + h.len - 1)
            f1    == OctetField(inner, 1)
            f2    == OctetField(inner, f1.next)
        IN  IF ~f1.ok THEN bad
            ELSE IF ~f2.ok THEN [bad EXCEPT !.LockedKey = f1.bytes]
            ELSE [ok |-> TRUE, LockedKey |-> f1.bytes, Box |-> f2.bytes,
                  rest |-> Drop(b, h.body + h.len - 1)]

(***************************************************************************)
(* encoding/pem                                                            *)
(***************************************************************************)

PemBegin == Dash5 \o <<66, 69, 71, 73, 78, 32>>                \* "-----BEGIN "
PemEnd == Dash5 \o <<69, 78, 68, 32>>                          \* "-----END "
Colon == 58
TAB == 9
PemLineLength == 64

\* "SSHBOX ENCRYPTED FILE"
BoxLabel == <<83, 83, 72, 66, 79, 88, 32, 69, 78, 67, 82, 89, 80, 84, 69, 68,
              32, 70, 73, 76, 69>>
\* "RSA PRIVATE KEY"
PrivateKeyLabel == <<82, 83, 65, 32, 80, 82, 73, 86, 65, 84, 69, 32, 75, 69, 89>>
\* "PUBLIC KEY"
OtherLabel == <<80, 85, 66, 76, 73, 67, 32, 75, 69, 89>>

\* text broken into lines of PemLineLength characters, each ended by LF.
PemLines(text) ==
    LET L == Len(text)
        w == PemLineLength
        n == L + (L + w - 1) \div w
    IN  [i \in 1..n |->
            IF (i - 1) % (w + 1) = w \/ i = n THEN LF
            ELSE text[((i - 1) \div (w + 1)) * w + ((i - 1) % (w + 1)) + 1]]

\* pem.EncodeToMemory of a block without headers.
PemEncode(type, bytes) ==
    PemBegin \o type \o Dash5 \o <<LF>>
    \o PemLines(B64Encode(bytes))
    \o PemEnd \o type \o Dash5 \o <<LF>>

\* bytes.TrimRight(s, " \t").
TrimRight(s) ==
    LET keep == {i \in 1..Len(s) : s[i] \notin {SP, TAB}}
    IN  IF keep = {} THEN <<>>
        ELSE SubSeq(s, 1, CHOOSE i \in keep : \A j \in keep : j <= i)

\* getLine: the text up to the first LF, without a CR before it and without
\* trailing spaces and tabs, and the text after that LF.
getLine(data) ==
    LET i == IndexFrom(data, <<LF>>, 1)
    IN  IF i = 0 THEN [line |-> TrimRight(data), rest |-> <<>>]
        ELSE [line |-> TrimRight(IF i > 1 /\ data[i - 1] = CR
                                 THEN SubSeq(data, 1, i - 2)
                                 ELSE SubSeq(data, 1, i - 1)),
              rest |-> Drop(data, i)]

NoBlock == [ok |-> FALSE, Type |-> <<>>, Bytes |-> <<>>]

\* pem.Decode from rest on: the next BEGIN line at the start of a line, its
\* type, the END line of the same type, the base64 body between them. A
\* candidate that fails is skipped and the search goes on after it. Blocks
\* with headers (a colon in the line after BEGIN) are not modelled: none of
\* the files here holds one.
RECURSIVE PemScan(_)
PemScan(rest) ==
    LET at    == IndexFrom(rest, <<LF>> \o PemBegin, 1)
        found == IsPrefix(PemBegin, rest) \/ at # 0
        after == IF IsPrefix(PemBegin, rest) THEN Drop(rest, Len(PemBegin))
                 ELSE Drop(rest, at + Len(PemBegin))
        tl    == getLine(after)
        type  == Take(tl.line, Len(tl.line) - Len(Dash5))
        r     == tl.rest
        e     == IndexFrom(r, <<LF>> \o PemEnd, 1)
        empty == IsPrefix(PemEnd, r)
        body  == IF empty THEN <<>> ELSE Take(r, e - 1)
        trail == IF empty THEN Drop(r, Len(PemEnd)) ELSE Drop(r, e + Len(PemEnd))
        tlen  == Len(type) + Len(Dash5)
        dec   == B64Decode(Without(body, {SP, TAB}))
    IN  IF ~found THEN NoBlock
        ELSE IF Len(tl.line) < Len(Dash5)
                \/ Drop(tl.line, Len(tl.line) - Len(Dash5)) # Dash5
        THEN PemScan(r)
        ELSE IF r = <<>> \/ Colon \in {getLine(r).line[i] : i \in 1..Len(getLine(r).line)}
        THEN NoBlock
        ELSE IF ~empty /\ e = 0 THEN PemScan(r)
        ELSE IF Len(trail) < tlen \/ Take(trail, tlen) # type \o Dash5 THEN PemScan(r)
        ELSE IF getLine(Drop(trail, tlen)).line # <<>> THEN PemScan(r)
        ELSE IF ~dec.ok THEN PemScan(r)
        ELSE [ok |-> TRUE, Type |-> type, Bytes |-> dec.bytes]

PemDecode(data) == PemScan(data)

(***************************************************************************)
(* packageBox and unpackageBox                                             *)
(***************************************************************************)

\* packageBox: the DER record, inside a PEM envelope when armour is set.
\* (asn1.Marshal of two byte slices has no error case.)
packageBox(lockedKey, box, armour) ==
    IF armour THEN PemEncode(BoxLabel, Marshal(lockedKey, box))
    ELSE Marshal(lockedKey, box)

\* Unpacked with the two members returned in the other order.
UnpackedSwapped(rec) == [ok |-> rec.ok, lockedKey |-> rec.Box, box |-> rec.LockedKey]

\* What unpackageBox returns for the outcome of an asn1.Unmarshal.
Unpacked(rec) == [ok |-> rec.ok, lockedKey |-> rec.LockedKey, box |-> rec.Box]

\* unpackageBox once the DER attempt has failed: the PEM block must exist and
\* carry the box label; its bytes are decoded as the record.
UnpackBlock(block) ==
    IF ~block.ok \/ block.Type # BoxLabel
    THEN [ok |-> FALSE, lockedKey |-> <<>>, box |-> <<>>]
    ELSE Unpacked(Unmarshal(block.Bytes))

\* The choice between the two attempts of unpackageBox.
UnpackEither(der, pkg) ==
    IF der.ok THEN Unpacked(der) ELSE UnpackBlock(PemDecode(pkg))

\* unpackageBox: first the DER record (rest discarded), then the PEM envelope.
unpackageBox(pkg) == UnpackEither(Unmarshal(pkg), pkg)

(***************************************************************************)
(* SpecBox: packageBox, then unpackageBox of the file it wrote or of a     *)
(* file that differs from it in one respect                                *)
(***************************************************************************)

MaxLen == 2                 \* longest short byte string tried
LongLens == {127, 128, 256} \* lengths around the DER long form and the PEM line

BoxBytes == {0, 48}
ShortStrings == UNION {[1..n -> BoxBytes] : n \in 0..MaxLen}
ByteStrings == ShortStrings \cup {Fill(171, n) : n \in LongLens}

Kinds == {"extra", "third", "one", "integer", "label", "text"}

\* A container file that is not packageBox's output: the record followed by a
\* byte, with a third member, with one member, with an INTEGER as first
\* member (each in the envelope when armour is set), the right record under
\* another label, or plain text.
Damaged(kind, lockedKey, box, armour) ==
    LET os1 == DerTLV(TagOctetString, lockedKey)
        os2 == DerTLV(TagOctetString, box)
        rec == IF kind = "extra" THEN Marshal(lockedKey, box) \o <<0>>
               ELSE IF kind = "third"
               THEN DerTLV(TagSequence, os1 \o os2 \o DerTLV(TagOctetString, <<7>>))
               ELSE IF kind = "one" THEN DerTLV(TagSequence, os1)
               ELSE IF kind = "integer"
               THEN DerTLV(TagSequence, DerTLV(2, <<1>> \o lockedKey) \o os2)
               ELSE Marshal(lockedKey, box)
    IN  IF kind = "text" THEN Comment \o <<LF>>
        ELSE IF kind = "label" THEN PemEncode(OtherLabel, rec)
        ELSE IF armour THEN PemEncode(BoxLabel, rec)
        ELSE rec

NotUnpacked == [done |-> FALSE, ok |-> FALSE, lockedKey |-> <<>>, box |-> <<>>]

InitBox ==
    /\ bLockedKey \in ByteStrings
    /\ bBox \in ByteStrings
    /\ bArmour \in BOOLEAN
    /\ bPkg = <<>>
    /\ bKind = "new"
    /\ bOut = NotUnpacked

\* packageBox(lockedKey, box, armour), its result written to the file.
PackageBox ==
    /\ bKind = "new"
    /\ bPkg' = packageBox(bLockedKey, bBox, bArmour)
    /\ bKind' = "packaged"
    /\ UNCHANGED <<bLockedKey, bBox, bArmour, bOut, keyVars, mainVars>>

\* The file is replaced by one of another shape.
Damage ==
    /\ bKind = "packaged"
    /\ ~bOut.done
    /\ \E kind \in Kinds :
        /\ bPkg' = Damaged(kind, bLockedKey, bBox, bArmour)
        /\ bKind' = kind
    /\ UNCHANGED <<bLockedKey, bBox, bArmour, bOut, keyVars, mainVars>>

\* unpackageBox(pkg) on the file.
UnpackageBox ==
    /\ bKind # "new"
    /\ ~bOut.done
    /\ bOut' = [done |-> TRUE] @@ unpackageBox(bPkg)
    /\ UNCHANGED <<bLockedKey, bBox, bArmour, bPkg, bKind, keyVars, mainVars>>

NextBox == PackageBox \/ Damage \/ UnpackageBox

(***************************************************************************)
(* The libraries' ciphers, as ideal ciphers over byte strings. A private   *)
(* key is known by its public part [N, E]; N is the minimal big-endian     *)
(* modulus, E a signed integer [neg, mag].                                 *)
(***************************************************************************)

HashSize == 32          \* sha256.Size
KeySize == 48           \* secretbox.KeySize: AES-128 key and HMAC-SHA-256 key
NonceSize == 16         \* the AES block, secretbox's nonce
TagSize == 32           \* the HMAC-SHA-256 tag of a box
SHA256 == "sha256"

\* The sum of the bytes of s, modulo 256.
RECURSIVE ByteSum(_)
ByteSum(s) ==
    IF s = <<>> THEN 0
    ELSE IF Len(s) = 1 THEN s[1]
    ELSE LET h == Len(s) \div 2
         IN  (ByteSum(SubSeq(s, 1, h)) + ByteSum(SubSeq(s, h + 1, Len(s)))) % 256

\* rsa's checkPub: the public exponent is at least 2 and at most 2^31 - 1.
PublicExponentOk(E) ==
    /\ ~E.neg
    /\ E.mag \notin {<<>>, <<1>>}
    /\ Len(E.mag) <= 4
    /\ (Len(E.mag) = 4 => E.mag[1] < 128)

\* What binds a ciphertext to the key and hash it was made with.
KeyMark(hash, N, E) ==
    <<IF hash = SHA256 THEN 1 ELSE 2, N[1], ByteSum(N), ByteSum(E.mag)>>

\* rsa.EncryptOAEP(hash, rand.Reader, pub, msg, nil) with seed read from the
\* random source: ErrMessageTooLong when msg is longer than the modulus less
\* twice the hash size less 2; else a ciphertext as long as the modulus.
EncryptOAEP(hash, seed, pub, msg) ==
    LET k == Len(pub.N)
    IN  IF ~PublicExponentOk(pub.E) \/ Len(msg) > k - 2 * HashSize - 2
        THEN [ok |-> FALSE, ct |-> <<>>]
        ELSE [ok |-> TRUE,
              ct |-> KeyMark(hash, pub.N, pub.E) \o <<seed, Len(msg)>> \o msg
                     \o Fill(0, k - Len(msg) - 6)]

\* rsa.DecryptOAEP(hash, rand.Reader, priv, ct, nil): ErrDecryption unless ct
\* was made by EncryptOAEP for this key and hash.
DecryptOAEP(hash, priv, ct) ==
    LET k == Len(priv.N)
        n == ct[6]
    IN  IF Len(ct) # k \/ k < 2 * HashSize + 2 THEN [ok |-> FALSE, msg |-> <<>>]
        ELSE IF SubSeq(ct, 1, 4) # KeyMark(hash, priv.N, priv.E)
                \/ n > k - 2 * HashSize - 2
                \/ Drop(ct, 6 + n) # Fill(0, k - n - 6)
        THEN [ok |-> FALSE, msg |-> <<>>]
        ELSE [ok |-> TRUE, msg |-> SubSeq(ct, 7, 6 + n)]

\* The tag of nonce and ciphertext under key.
BoxTag(key, body) == Fill((ByteSum(key) + 3 * ByteSum(body) + Len(body)) % 256, TagSize)

\* secretbox.Seal(message, key) with nonce read from the random source:
\* nonce, ciphertext, tag.
Seal(message, key, nonce) ==
    IF Len(key) # KeySize THEN [ok |-> FALSE, box |-> <<>>]
    ELSE LET body == Fill(nonce, NonceSize)
                     \o [i \in 1..Len(message) |-> (message[i] + key[1] + nonce) % 256]
         IN  [ok |-> TRUE, box |-> body \o BoxTag(key, body)]

\* secretbox.Open(box, key): the message when the tag verifies.
Open(box, key) ==
    LET n    == Len(box) - NonceSize - TagSize
        body == Take(box, NonceSize + n)
    IN  IF Len(key) # KeySize \/ n < 0 \/ Drop(box, NonceSize + n) # BoxTag(key, body)
        THEN [ok |-> FALSE, message |-> <<>>]
        ELSE [ok |-> TRUE,
              message |-> [i \in 1..n |->
                              (body[NonceSize + i] + 512 - key[1] - body[1]) % 256]]

(***************************************************************************)
(* Keys and key files                                                      *)
(***************************************************************************)

E65537 == [neg |-> FALSE, mag |-> <<1, 0, 1>>]
KeyA == [N |-> <<193>> \o Fill(7, 127), E |-> E65537]      \* 1024 bits
KeyS == [N |-> <<177>> \o Fill(5, 63), E |-> E65537]       \* 512 bits
KeyPairs == {KeyA, KeyS}

\* The ssh wire blob of a public key (an mpint with its top bit set is
\* written with a leading zero byte).
PubWire(kp) ==
    U32(Len(SshRsa)) \o SshRsa
    \o U32(Len(kp.E.mag)) \o kp.E.mag
    \o U32(Len(kp.N) + 1) \o <<0>> \o kp.N

\* The body of a private key file; of the PKCS#1 structure only the version,
\* the modulus and the public exponent are modelled.
PrivDer(kp) ==
    DerTLV(TagSequence,
           DerTLV(2, <<0>>) \o DerTLV(2, <<0>> \o kp.N) \o DerTLV(2, kp.E.mag))

\* x509.ParsePKCS1PrivateKey(der).
ParsePKCS1PrivateKey(der) ==
    IF \E kp \in KeyPairs : PrivDer(kp) = der
    THEN [ok |-> TRUE, key |-> CHOOSE kp \in KeyPairs : PrivDer(kp) = der]
    ELSE [ok |-> FALSE, key |-> [N |-> <<>>, E |-> E65537]]

\* File names, as their bytes.
Http == <<104, 116, 116, 112>>                                 \* "http"
SchemeSep == <<58, 47, 47>>                                    \* "://"
NameKPub == <<107, 46, 112, 117, 98>>                          \* "k.pub"
NameSPub == <<115, 46, 112, 117, 98>>                          \* "s.pub"
NameK == <<107>>                                               \* "k"
NameUrl == Http \o SchemeSep \o <<104, 47>> \o NameKPub        \* "http://h/k.pub"
NamePlain == <<112>>                                           \* "p"
NameSealed == <<120>>                                          \* "x"
NameOpened == <<121>>                                          \* "y"

KeyArgs == {<<>>, NameKPub, NameSPub, NameK, NameUrl}

\* remoteCheck.MatchString(name) for "^https?://".
remoteCheck(name) ==
    \/ IsPrefix(Http \o SchemeSep, name)
    \/ IsPrefix(Http \o <<115>> \o SchemeSep, name)

\* The key files on disk, which no run writes.
KeyFiles ==
    (NameKPub :> KeyLine(TRUE, B64Encode(PubWire(KeyA)), TRUE, FALSE))
    @@ (NameSPub :> KeyLine(FALSE, B64Encode(PubWire(KeyS)), FALSE, TRUE))
    @@ (NameK :> PemEncode(PrivateKeyLabel, PrivDer(KeyA)))

\* What the web serves.
WebFiles == (NameUrl :> KeyLine(TRUE, B64Encode(PubWire(KeyA)), TRUE, FALSE))

(***************************************************************************)
(* Spec: runs of the program (main, encrypt, decrypt) over a small file    *)
(* system, one action per step of the pipeline                             *)
(***************************************************************************)

MaxRuns == 2        \* runs of the program in one behaviour
MaxMsgLen == 1      \* longest message tried

MsgBytes == {255}
Messages == UNION {[1..n -> MsgBytes] : n \in 0..MaxMsgLen}
RandomBytes == {17, 34}     \* what the first read of the random source may give

\* The random source is a stream fixed by its first byte: the byte that
\* follows byte r.
NextRandom(r) == (5 * r + 1) % 256

WorkFiles == {NamePlain, NameSealed, NameOpened}
ArgLists == {<<NamePlain>>, <<NamePlain, NameSealed>>, <<NameSealed, NameOpened>>}

\* The command lines tried: the combinations of the flags, key arguments and
\* argument lists in which -e is not used on the sealed file (no container is
\* sealed again), -a comes only with -e alone (decrypt ignores it), and a
\* single file argument comes with one key argument only.
CommandLines ==
    {c \in [d : BOOLEAN, e : BOOLEAN, a : BOOLEAN, k : KeyArgs, args : ArgLists] :
        /\ c.e => c.args[1] # NameSealed
        /\ c.a => c.e /\ ~c.d
        /\ Len(c.args) # 2 => c.k = NameK}

Absent == [present |-> FALSE, data |-> <<>>]
NoKeyPair == [N |-> <<>>, E |-> [neg |-> FALSE, mag |-> <<>>]]
NoFlags == [d |-> FALSE, e |-> FALSE, a |-> FALSE, k |-> <<>>, args |-> <<>>]
NoLocals == [pub |-> NoKeyPair, key |-> NoKeyPair, rand |-> 0, boxKey |-> <<>>,
             lockedKey |-> <<>>, message |-> <<>>, box |-> <<>>, pkg |-> <<>>]
NoFetch == [called |-> FALSE, name |-> <<>>, local |-> TRUE, err |-> FALSE,
            by |-> "none"]

\* The local files a run can read: the key files and the work files present.
LocalData(name) ==
    IF name \in DOMAIN KeyFiles THEN [present |-> TRUE, data |-> KeyFiles[name]]
    ELSE IF name \in WorkFiles THEN fs[name]
    ELSE Absent

\* What a read that ends in an error may have returned before it: nothing,
\* or all of data but its last byte.
Partial(data) == {Take(data, n) : n \in {0, Len(data) - 1} \cap 0..Len(data)}

\* ioutil.ReadFile(name): the data, or an error (with the bytes read so far).
ReadFile(name) ==
    IF LocalData(name).present
    THEN {[data |-> LocalData(name).data, err |-> FALSE]}
         \cup {[data |-> p, err |-> TRUE] : p \in Partial(LocalData(name).data)}
    ELSE {[data |-> <<>>, err |-> TRUE]}

\* fetchKey(name, local): ReadFile, or http.Get and ioutil.ReadAll of the
\* body; kb is returned together with the error.
fetchKey(name, local) ==
    IF local THEN {[kb |-> r.data, err |-> r.err] : r \in ReadFile(name)}
    ELSE IF name \in DOMAIN WebFiles
    THEN {[kb |-> WebFiles[name], err |-> FALSE]}
         \cup {[kb |-> p, err |-> TRUE] : p \in Partial(WebFiles[name])}
    ELSE {[kb |-> <<>>, err |-> TRUE]}

\* main up to the call of encrypt or decrypt: where the run goes.
main(d, e, k, args) ==
    IF d /\ e THEN "exit"
    ELSE IF Len(args) # 2 THEN "exit"
    ELSE IF k = <<>> THEN "exit"
    ELSE IF remoteCheck(k) /\ d THEN "exit"
    ELSE IF e THEN "enc_load"
    ELSE "dec_load"

\* The local argument main gives encrypt, which hands it to loadPublicKey.
PublicKeyLocal(k) == ~remoteCheck(k)

\* PrivateKeyLocal as it would be if loadPrivateKey took main's remote check.
PrivateKeyRemote(k) == ~remoteCheck(k)

\* The local argument loadPrivateKey gives fetchKey.
PrivateKeyLocal(k) == TRUE

InitMain ==
    /\ \E m \in Messages :
        fs = (NamePlain :> [present |-> TRUE, data |-> m])
             @@ (NameSealed :> Absent) @@ (NameOpened :> Absent)
    /\ runs = 0
    /\ pc = "idle"
    /\ fl = NoFlags
    /\ loc = NoLocals
    /\ fetch = NoFetch
    /\ failed = "none"
    /\ writes = 0
    /\ exit = -1

\* The program is started: flag.Parse and main's checks.
Start ==
    /\ pc = "idle"
    /\ runs < MaxRuns
    /\ \E c \in CommandLines :
        /\ fl' = c
        /\ pc' = main(c.d, c.e, c.k, c.args)
        /\ exit' = IF main(c.d, c.e, c.k, c.args) = "exit" THEN 1 ELSE -1
    /\ runs' = runs + 1
    /\ UNCHANGED <<fs, loc, fetch, failed, writes, keyVars, boxVars>>

\* A step of encrypt or decrypt returns an error: main prints and exits 1.
Fail(step) ==
    /\ pc' = "exit"
    /\ exit' = 1
    /\ failed' = step

\* A step succeeds and the run goes on at next.
Goto(next) ==
    /\ pc' = next
    /\ UNCHANGED <<exit, failed>>

\* encrypt: pub, err := loadPublicKey(keyfile, local).
EncLoadKey ==
    /\ pc = "enc_load"
    /\ \E out \in fetchKey(fl.k, PublicKeyLocal(fl.k)) :
        LET res == loadPublicKey(out.kb)
        IN  /\ fetch' = [called |-> TRUE, name |-> fl.k, local |-> PublicKeyLocal(fl.k),
                         err |-> out.err, by |-> "loadPublicKey"]
            /\ IF res.status = "ok"
               THEN Goto("enc_genkey") /\ loc' = [loc EXCEPT !.pub = [N |-> res.N, E |-> res.E]]
               ELSE IF res.status = "panic"
               THEN pc' = "exit" /\ exit' = 2 /\ failed' = "loadPublicKey" /\ loc' = loc
               ELSE Fail("loadPublicKey") /\ loc' = loc
    /\ UNCHANGED <<fs, runs, fl, writes, keyVars, boxVars>>

\* encrypt: boxKey, err := secretbox.GenerateKey().
EncGenerateKey ==
    /\ pc = "enc_genkey"
    /\ \/ \E r \in RandomBytes :
            Goto("enc_wrap")
            /\ loc' = [loc EXCEPT !.boxKey = Fill(r, KeySize), !.rand = NextRandom(r)]
       \/ Fail("GenerateKey") /\ loc' = loc
    /\ UNCHANGED <<fs, runs, fl, fetch, writes, keyVars, boxVars>>

\* encrypt: lockedKey, err := rsa.EncryptOAEP(sha256.New(), rand.Reader, pub, boxKey, nil).
EncWrapKey ==
    /\ pc = "enc_wrap"
    /\ LET res == EncryptOAEP(SHA256, loc.rand, loc.pub, loc.boxKey)
       IN  IF res.ok
           THEN Goto("enc_read")
                /\ loc' = [loc EXCEPT !.lockedKey = res.ct, !.rand = NextRandom(loc.rand)]
           ELSE Fail("EncryptOAEP") /\ loc' = loc
    /\ UNCHANGED <<fs, runs, fl, fetch, writes, keyVars, boxVars>>

\* encrypt: message, err := ioutil.ReadFile(in).
EncReadSource ==
    /\ pc = "enc_read"
    /\ \E r \in ReadFile(fl.args[1]) :
        IF r.err THEN Fail("ReadFile") /\ loc' = loc
        ELSE Goto("enc_seal") /\ loc' = [loc EXCEPT !.message = r.data]
    /\ UNCHANGED <<fs, runs, fl, fetch, writes, keyVars, boxVars>>

\* encrypt: box, ok := secretbox.Seal(message, boxKey).
EncSeal ==
    /\ pc = "enc_seal"
    /\ LET res == Seal(loc.message, loc.boxKey, loc.rand)
       IN  IF res.ok
           THEN Goto("enc_package")
                /\ loc' = [loc EXCEPT !.box = res.box, !.rand = NextRandom(loc.rand)]
           ELSE Fail("Seal") /\ loc' = loc
    /\ UNCHANGED <<fs, runs, fl, fetch, writes, keyVars, boxVars>>

\* encrypt: pkg, err := packageBox(lockedKey, box, armour).
EncPackage ==
    /\ pc = "enc_package"
    /\ Goto("enc_write")
    /\ loc' = [loc EXCEPT !.pkg = packageBox(loc.lockedKey, loc.box, fl.a)]
    /\ UNCHANGED <<fs, runs, fl, fetch, writes, keyVars, boxVars>>

\* ioutil.WriteFile(out, data, 0644), then main's exit: the file holds data,
\* or the write fails and the file is as it was (it could not be opened) or
\* holds what was written before the error (the first half of data).
WriteTarget(data) ==
    /\ writes' = writes + 1
    /\ pc' = "exit"
    /\ \/ /\ fs' = [fs EXCEPT ![fl.args[2]] = [present |-> TRUE, data |-> data]]
          /\ exit' = 0
          /\ failed' = failed
       \/ /\ \/ fs' = fs
             \/ fs' = [fs EXCEPT ![fl.args[2]] =
                          [present |-> TRUE, data |-> Take(data, Len(data) \div 2)]]
          /\ exit' = 1
          /\ failed' = "WriteFile"

\* encrypt: err = ioutil.WriteFile(out, pkg, 0644).
EncWrite ==
    /\ pc = "enc_write"
    /\ WriteTarget(loc.pkg)
    /\ UNCHANGED <<runs, fl, loc, fetch, keyVars, boxVars>>

\* decrypt: key, err := loadPrivateKey(keyfile). loadPrivateKey reads the
\* file with fetchKey(name, true), exits 1 when pem.Decode finds no block or
\* the block's type is not "RSA PRIVATE KEY", and returns the error of
\* x509.ParsePKCS1PrivateKey.
DecLoadKey ==
    /\ pc = "dec_load"
    /\ \E out \in fetchKey(fl.k, PrivateKeyLocal(fl.k)) :
        LET block == PemDecode(out.kb)
            res   == ParsePKCS1PrivateKey(block.Bytes)
        IN  /\ fetch' = [called |-> TRUE, name |-> fl.k, local |-> PrivateKeyLocal(fl.k),
                         err |-> out.err, by |-> "loadPrivateKey"]
            /\ IF ~block.ok \/ block.Type # PrivateKeyLabel \/ ~res.ok
               THEN Fail("loadPrivateKey") /\ loc' = loc
               ELSE Goto("dec_read") /\ loc' = [loc EXCEPT !.key = res.key]
    /\ UNCHANGED <<fs, runs, fl, writes, keyVars, boxVars>>

\* decrypt: pkg, err := ioutil.ReadFile(in).
DecReadSource ==
    /\ pc = "dec_read"
    /\ \E r \in ReadFile(fl.args[1]) :
        IF r.err THEN Fail("ReadFile") /\ loc' = loc
        ELSE Goto("dec_unpackage") /\ loc' = [loc EXCEPT !.pkg = r.data]
    /\ UNCHANGED <<fs, runs, fl, fetch, writes, keyVars, boxVars>>

\* decrypt: lockedKey, box, err := unpackageBox(pkg).
DecUnpackage ==
    /\ pc = "dec_unpackage"
    /\ LET res == unpackageBox(loc.pkg)
       IN  IF res.ok
           THEN Goto("dec_unwrap")
                /\ loc' = [loc EXCEPT !.lockedKey = res.lockedKey, !.box = res.box]
           ELSE Fail("unpackageBox") /\ loc' = loc
    /\ UNCHANGED <<fs, runs, fl, fetch, writes, keyVars, boxVars>>

\* DecryptHash as it would be if decrypt passed sha1.New().
DecryptHashSha1 == "sha1"

\* The hash decrypt gives rsa.DecryptOAEP: sha256.New().
DecryptHash == SHA256

\* decrypt: boxKey, err := rsa.DecryptOAEP(hash, rand.Reader, key, lockedKey, nil).
DecUnwrapKey ==
    /\ pc = "dec_unwrap"
    /\ LET res == DecryptOAEP(DecryptHash, loc.key, loc.lockedKey)
       IN  IF res.ok
           THEN Goto("dec_open") /\ loc' = [loc EXCEPT !.boxKey = res.msg]
           ELSE Fail("DecryptOAEP") /\ loc' = loc
    /\ UNCHANGED <<fs, runs, fl, fetch, writes, keyVars, boxVars>>

\* AfterOpen as it would be if decrypt did not look at ok.
AfterOpenUnchecked(ok) == "dec_write"

\* Where decrypt goes after secretbox.Open: on to WriteFile when ok, else it
\* returns the error "opening box failed".
AfterOpen(ok) == IF ok THEN "dec_write" ELSE "exit"

\* decrypt: message, ok := secretbox.Open(box, boxKey).
DecOpen ==
    /\ pc = "dec_open"
    /\ LET res == Open(loc.box, loc.boxKey)
       IN  /\ pc' = AfterOpen(res.ok)
           /\ exit' = IF AfterOpen(res.ok) = "exit" THEN 1 ELSE exit
           /\ failed' = IF res.ok THEN failed ELSE "Open"
           /\ loc' = [loc EXCEPT !.message = res.message]
    /\ UNCHANGED <<fs, runs, fl, fetch, writes, keyVars, boxVars>>

\* decrypt: err = ioutil.WriteFile(out, message, 0644).
DecWrite ==
    /\ pc = "dec_write"
    /\ WriteTarget(loc.message)
    /\ UNCHANGED <<runs, fl, loc, fetch, keyVars, boxVars>>

\* The process is gone; the files stay.
Return ==
    /\ pc = "exit"
    /\ pc' = "idle"
    /\ fl' = NoFlags
    /\ loc' = NoLocals
    /\ fetch' = NoFetch
    /\ failed' = "none"
    /\ writes' = 0
    /\ exit' = -1
    /\ UNCHANGED <<fs, runs, keyVars, boxVars>>

\* b with its lowest bit flipped.
FlipBit(b) == IF b % 2 = 0 THEN b + 1 ELSE b - 1

\* s with the lowest bit of its last byte flipped.
FlipLast(s) == [s EXCEPT ![Len(s)] = FlipBit(s[Len(s)])]

\* The container of res with one bit flipped in its box or its lockedKey.
TamperedBox(res, field, armour) ==
    packageBox(IF field = "lockedKey" THEN FlipLast(res.lockedKey) ELSE res.lockedKey,
               IF field = "box" THEN FlipLast(res.box) ELSE res.box,
               armour)

\* The container file data tampered with, in the form (armoured or not) it has.
Tampered(data, field) == TamperedBox(unpackageBox(data), field, ~Unmarshal(data).ok)

\* Whether the file holds a container with something to flip.
Tamperable(res) == res.ok /\ res.lockedKey # <<>> /\ res.box # <<>>

\* Between runs someone flips one bit of the sealed file.
Tamper ==
    /\ pc = "idle"
    /\ runs < MaxRuns
    /\ fs[NameSealed].present
    /\ Tamperable(unpackageBox(fs[NameSealed].data))
    /\ \E field \in {"lockedKey", "box"} :
        fs' = [fs EXCEPT ![NameSealed] =
                  [present |-> TRUE, data |-> Tampered(fs[NameSealed].data, field)]]
    /\ UNCHANGED <<runs, pc, fl, loc, fetch, failed, writes, exit, keyVars, boxVars>>

(***************************************************************************)
(* The specifications                                                      *)
(***************************************************************************)

IdleKey == kin = <<>> /\ kshape = <<>> /\ kres = NoKey("none")
IdleBox ==
    /\ bLockedKey = <<>> /\ bBox = <<>> /\ bArmour = FALSE
    /\ bPkg = <<>> /\ bKind = "new" /\ bOut = NotUnpacked
IdleMain ==
    /\ fs = <<>> /\ runs = 0 /\ pc = "off" /\ fl = NoFlags /\ loc = NoLocals
    /\ fetch = NoFetch /\ failed = "none" /\ writes = 0 /\ exit = -1

Init ==
    /\ InitMain
    /\ IdleKey
    /\ IdleBox
Next ==
    \/ Start
    \/ EncLoadKey \/ EncGenerateKey \/ EncWrapKey \/ EncReadSource
    \/ EncSeal \/ EncPackage \/ EncWrite
    \/ DecLoadKey \/ DecReadSource \/ DecUnpackage \/ DecUnwrapKey
    \/ DecOpen \/ DecWrite
    \/ Return
    \/ Tamper
Spec == Init /\ [][Next]_vars

NextKey == LoadPublicKey
InitKeySpec ==
    /\ InitKey
    /\ IdleBox
    /\ IdleMain
SpecKey == InitKeySpec /\ [][NextKey]_vars

InitBoxSpec ==
    /\ InitBox
    /\ IdleKey
    /\ IdleMain
SpecBox == InitBoxSpec /\ [][NextBox]_vars

(***************************************************************************)
(* The properties                                                          *)
(***************************************************************************)

\* The modulus length below which no box key can be wrapped.
MinModulusLen == 2 * HashSize + 2 + KeySize

\* The files encrypt can produce from message m for the key kp: one for each
\* first byte of the random source and each armour setting.
Sealings(kp, m) ==
    IF Len(kp.N) < MinModulusLen \/ ~PublicExponentOk(kp.E) THEN {}
    ELSE {packageBox(EncryptOAEP(SHA256, NextRandom(r), kp, Fill(r, KeySize)).ct,
                     Seal(m, Fill(r, KeySize), NextRandom(NextRandom(r))).box,
                     a) : r \in RandomBytes, a \in BOOLEAN}

\* A run of encrypt that exited 0 was given a key whose modulus is long
\* enough for the box key, and left in the target a sealing of the source.
EncryptSeals ==
    (pc = "exit" /\ fl.e /\ exit = 0)
    => /\ Len(loc.pub.N) >= MinModulusLen
       /\ fs[fl.args[2]].present
       /\ fs[fl.args[2]].data \in Sealings(loc.pub, fs[fl.args[1]].data)

\* A run of decrypt that loaded the private key and read a sealing of m for
\* that key, and whose write did not fail, exited 0 with m in the target.
DecryptOpens ==
    \A m \in Messages :
        (/\ pc = "exit"
         /\ fetch.by = "loadPrivateKey"
         /\ failed # "WriteFile"
         /\ loc.pkg \in Sealings(loc.key, m))
        => /\ exit = 0
           /\ fs[fl.args[2]] = [present |-> TRUE, data |-> m]

C2_ContainerRoundTrip ==
    (bOut.done /\ bKind = "packaged")
    => /\ bOut.ok
       /\ bOut.lockedKey = bLockedKey
       /\ bOut.box = bBox
       /\ (bArmour => ~Unmarshal(bPkg).ok)

\* C2, a case: an armoured container whose lockedKey needs the long DER
\* length form and several PEM lines, and whose box is another string, has
\* been unpacked.
C2_ArmouredUnpacked ==
    /\ bOut.done
    /\ bKind = "packaged"
    /\ bArmour
    /\ Len(bLockedKey) = 256
    /\ bBox = <<0, 48>>
    /\ bOut.ok

\* The steps that encrypt and decrypt take before ioutil.WriteFile, by the
\* names under which their failure is recorded.
EarlierSteps ==
    {"loadPublicKey", "loadPrivateKey", "GenerateKey", "EncryptOAEP", "DecryptOAEP",
     "ReadFile", "Seal", "Open", "unpackageBox"}

\* In no state of a run has the target been written more than once, or after
\* a step that failed; a run in which a step failed has ended, with a
\* non-zero exit status.
WrittenLast ==
    /\ writes <= 1
    /\ (writes = 1 => pc = "exit" /\ failed \in {"none", "WriteFile"})
    /\ (failed \in EarlierSteps => writes = 0 /\ pc = "exit" /\ exit # 0)

\* No step of a run but the one that calls ioutil.WriteFile changes a file,
\* and that step is taken with no failure recorded.
OnlyWriteStoresFiles ==
    (fs' # fs /\ pc # "idle")
    => /\ pc \in {"enc_write", "dec_write"}
       /\ failed = "none"
       /\ writes = 0
       /\ \A f \in WorkFiles \ {fl.args[2]} : fs'[f] = fs[f]

\* C3: in every run of encrypt or decrypt the target is written at most
\* once, and only after each earlier call of the pipeline (key loading,
\* reading the source, key wrap or unwrap, seal or open, package or
\* unpackage) has returned without error; when one of them returns an error
\* (a box that fails authentication and a lockedKey that does not unwrap
\* included) the run exits non-zero and no file is written.
C3_AllOrNothing == []WrittenLast /\ [][OnlyWriteStoresFiles]_vars

\* C3, a case: decrypt of a container whose box was tampered with has ended
\* at secretbox.Open, and the target does not exist.
C3_OpenFailedNothingWritten ==
    /\ pc = "exit"
    /\ failed = "Open"
    /\ exit = 1
    /\ writes = 0
    /\ ~fs[fl.args[2]].present

\* C4: for every combination of -d and -e and every -k value, URLs
\* included, the bytes loadPrivateKey parses are read from a local file; a
\* fetch over HTTP is made only by loadPublicKey, in a run with -e and
\* without -d, and no such run holds a private key.
C4_PrivateKeysLocal ==
    /\ (fetch.by = "loadPrivateKey" => fetch.local)
    /\ (fetch.called /\ ~fetch.local
        => /\ fetch.by = "loadPublicKey"
           /\ fl.e /\ ~fl.d
           /\ loc.key = NoKeyPair)

\* C4, a case: -k is a URL and neither -d nor -e is given, so main calls
\* decrypt, and loadPrivateKey has asked for the URL as a local file.
C4_UrlReadAsLocalFile ==
    /\ fetch.by = "loadPrivateKey"
    /\ remoteCheck(fl.k)
    /\ ~fl.d /\ ~fl.e
    /\ fetch.local
    /\ pc = "exit" /\ exit = 1

\* C5, as stated: for every one-line key file made of a base64 payload, with
\* or without the label "ssh-rsa " before it, a comment after it and a
\* terminating newline, loadPublicKey returns what it returns for the bare
\* payload.
C5_SameAsBarePayload ==
    kres.status # "none" => kres = loadPublicKey(kshape.payload)

\* The bytes the payload of the key file kin decodes to.
DecodedPayload == B64Decode(pubkeyRegexp(kin)).bytes

\* C6, as stated: loadPublicKey returns a key only if the three fields, each
\* with its 4-byte length prefix, lie within the bytes the payload decodes
\* to; no field is completed with other bytes.
C6_FieldsWithinPayload ==
    kres.status = "ok"
    => 12 + Len(SshRsa) + Len(kres.Exponent) + Len(kres.Modulus) <= Len(DecodedPayload)

\* C7, as stated: unpackageBox returns (lockedKey, box) without error only
\* when the file, or the body of an envelope labelled "SSHBOX ENCRYPTED
\* FILE", is the record of exactly these two byte strings and nothing else.
C7_StrictShape ==
    (bOut.done /\ bOut.ok)
    => \/ bPkg = Marshal(bOut.lockedKey, bOut.box)
       \/ /\ PemDecode(bPkg).ok
          /\ PemDecode(bPkg).Type = BoxLabel
          /\ PemDecode(bPkg).Bytes = Marshal(bOut.lockedKey, bOut.box)

\* C8, as stated: for every value of a length prefix, values with the top
\* bit set included, loadPublicKey ends by returning a key or an error; it
\* does not panic.
C8_NoPanic == kres.status # "panic"

\* C9, as stated: whenever loadPublicKey returns a key, key.N is the
\* big-endian unsigned value of the modulus field and key.E that of the
\* exponent field, whatever the field's length and content.
C9_UnsignedValues ==
    kres.status = "ok"
    => /\ kres.N = SetBytes(kres.Modulus)
       /\ kres.E = [neg |-> FALSE, mag |-> SetBytes(kres.Exponent)]

\* C10, as stated: whenever fetchKey returns an error, the run of encrypt or
\* decrypt ends there with a non-zero exit status: no key parsed from the
\* bytes returned is held, no later step runs and nothing is written.
C10_FetchErrorFatal ==
    fetch.err
    => /\ pc = "exit"
       /\ exit # 0
       /\ writes = 0
       /\ loc.pub = NoKeyPair
       /\ loc.key = NoKeyPair

====
